---- MODULE Spec2Model ----
(***************************************************************************)
(* TrafficMonitorCommand of "Network Analysis/diagnose_network.py": the    *)
(* capture callback enqueues packets, one daemon worker thread dequeues    *)
(* them and runs the ten anomaly detectors on each in a fixed order.       *)
(*                                                                         *)
(* Time is counted in half minutes since the start of the run.  A packet   *)
(* is the view the detectors have of a scapy packet: which layers          *)
(* haslayer() reports and the fields the detectors read.                   *)
(***************************************************************************)
EXTENDS Integers, Sequences, FiniteSets, TLC

\* ------------------------------------------------------------- bounds
\* packets the capture source delivers in one run
MaxPackets == 3
\* times the wall clock is seen to advance in one run
MaxTicks == 2
\* largest threshold given on the command line
MaxThreshold == 1

\* ---------------------------------------------------- program constants
\* timedelta(minutes=1) and timedelta(hours=1), in half minutes
one_minute == 2
one_hour == 120

\* argparse defaults of the traffic-monitor thresholds
DefaultDhcpThreshold == 100
DefaultPortScanThreshold == 50
DefaultDnsExfilThreshold == 1000
DefaultBandwidthThreshold == 1000000
DefaultIcmpThreshold == 500
DefaultSynThreshold == 1000
DefaultHttpThreshold == 1000
DefaultMalformedThreshold == 50
DefaultRogueDhcpThreshold == 1

\* ARP operation codes and DHCP message types read by the detectors
ArpWhoHas == 1
ArpIsAt == 2
DhcpDiscover == 1
DhcpOffer == 2
DhcpRequest == 3

\* TCP flag bits
SynBit == 2
AckBit == 16

\* -------------------------------------------------------------- packets
IPs == {"10.0.0.5", "10.0.0.6"}
MACs == {"aa:01", "aa:02"}
Ports == {22, 80, 443}
MalformedKeys == IPs \cup {"Unknown"}

\* A frame with no layer at all; the packets below add layers to it.
NoLayers ==
  [ether |-> FALSE, eth_src |-> "aa:01",
   arp |-> FALSE, arp_op |-> ArpWhoHas, psrc |-> "10.0.0.5", hwsrc |-> "aa:01",
   ip |-> FALSE, src |-> "10.0.0.5",
   tcp |-> FALSE, dport |-> 80, flags |-> 0, flags_ok |-> TRUE,
   udp |-> FALSE, sport_ok |-> TRUE,
   icmp |-> FALSE,
   dhcp |-> FALSE, message_type |-> DhcpDiscover,
   dns |-> FALSE, qr |-> 0,
   raw |-> FALSE, length |-> 1]

EtherFrame(mac) == [NoLayers EXCEPT !.ether = TRUE, !.eth_src = mac]

IpPacket(mac, ip) == [EtherFrame(mac) EXCEPT !.ip = TRUE, !.src = ip]

ArpPacket(op, ip, mac) ==
  [EtherFrame(mac) EXCEPT !.arp = TRUE, !.arp_op = op, !.psrc = ip, !.hwsrc = mac]

TcpPacket(ip, port, fl) ==
  [IpPacket("aa:01", ip) EXCEPT !.tcp = TRUE, !.dport = port, !.flags = fl]

\* TCP carried over something other than IPv4 (haslayer(IP) is false)
TcpNoIpPacket(port, fl) ==
  [EtherFrame("aa:01") EXCEPT !.tcp = TRUE, !.dport = port, !.flags = fl]

UdpPacket(ip) == [IpPacket("aa:01", ip) EXCEPT !.udp = TRUE]

DhcpPacket(mac, ip, mt) ==
  [IpPacket(mac, ip) EXCEPT !.udp = TRUE, !.dhcp = TRUE, !.message_type = mt]

\* a DHCP message captured without a link layer (getlayer(Ether) is None)
DhcpNoEtherPacket(ip, mt) ==
  [NoLayers EXCEPT !.ip = TRUE, !.src = ip, !.udp = TRUE, !.dhcp = TRUE,
                   !.message_type = mt]

IcmpPacket(ip) == [IpPacket("aa:01", ip) EXCEPT !.icmp = TRUE]

\* a DNS message over UDP: qr is 0 in a query and 1 in a response
DnsPacket(ip, q) == [UdpPacket(ip) EXCEPT !.dns = TRUE, !.qr = q]

\* an IP packet of n bytes: len(packet)
SizedPacket(ip, n) == [IpPacket("aa:01", ip) EXCEPT !.length = n]

\* a TCP segment with an application payload: haslayer(Raw)
HttpPacket(ip, fl) == [TcpPacket(ip, 80, fl) EXCEPT !.raw = TRUE]

\* packets whose expected field cannot be read
BadFlags(p) == [p EXCEPT !.flags_ok = FALSE]
BadSport(p) == [p EXCEPT !.sport_ok = FALSE]

\* The traffic mixes of the specifications below.
MixedTraffic ==
  {ArpPacket(ArpIsAt, "10.0.0.5", "aa:01"),
   TcpPacket("10.0.0.5", 80, SynBit),
   TcpNoIpPacket(80, SynBit),
   DhcpNoEtherPacket("10.0.0.5", DhcpOffer)}

SynTraffic ==
  {TcpPacket(ip, 80, SynBit) : ip \in IPs}
    \cup {TcpPacket("10.0.0.5", 80, AckBit), TcpPacket("10.0.0.5", 80, SynBit + AckBit)}

DhcpTraffic ==
  {DhcpPacket(mac, "10.0.0.5", DhcpRequest) : mac \in MACs}
    \cup {DhcpPacket("aa:02", "10.0.0.6", DhcpOffer)}

PortTraffic ==
  {TcpPacket("10.0.0.5", port, AckBit) : port \in Ports}
    \cup {TcpPacket("10.0.0.6", 80, AckBit)}

ArpTraffic ==
  {ArpPacket(ArpIsAt, "10.0.0.5", mac) : mac \in MACs}
    \cup {ArpPacket(ArpIsAt, "10.0.0.6", "aa:01"),
          ArpPacket(ArpWhoHas, "10.0.0.5", "aa:02")}

RogueTraffic ==
  {DhcpPacket("aa:01", ip, DhcpOffer) : ip \in IPs}
    \cup {DhcpPacket("aa:02", "10.0.0.5", DhcpRequest)}

MalformedTraffic ==
  {BadSport(UdpPacket("10.0.0.5")),
   BadFlags(TcpPacket("10.0.0.5", 80, AckBit)),
   BadFlags(TcpNoIpPacket(80, AckBit))}

OrderTraffic ==
  {TcpPacket("10.0.0.5", 80, SynBit),
   DhcpPacket("aa:01", "10.0.0.5", DhcpOffer),
   DhcpNoEtherPacket("10.0.0.5", DhcpOffer)}

FloodTraffic ==
  {IcmpPacket(ip) : ip \in IPs}
    \cup {TcpPacket("10.0.0.5", 80, SynBit),
          DhcpPacket("aa:01", "10.0.0.5", DhcpRequest)}

DnsTraffic ==
  {DnsPacket(ip, 0) : ip \in IPs} \cup {DnsPacket("10.0.0.5", 1)}

LiveTraffic ==
  {TcpPacket("10.0.0.5", 80, SynBit), TcpNoIpPacket(80, SynBit)}

BandwidthTraffic ==
  {SizedPacket("10.0.0.5", 1), SizedPacket("10.0.0.5", 3),
   SizedPacket("10.0.0.6", 2)}

HttpTraffic ==
  {HttpPacket(ip, AckBit) : ip \in IPs} \cup {TcpPacket("10.0.0.5", 80, AckBit)}

\* Traffic of one kind of packet from two sources, one set per kind.
KeyTraffics ==
  {{HttpPacket(ip, SynBit) : ip \in IPs},
   {DnsPacket(ip, 0) : ip \in IPs},
   {IcmpPacket(ip) : ip \in IPs},
   {BadSport(UdpPacket(ip)) : ip \in IPs},
   {DhcpPacket("aa:01", "10.0.0.5", DhcpOffer),
    DhcpPacket("aa:02", "10.0.0.6", DhcpOffer)}}

AbortTraffic ==
  {BadFlags(TcpPacket("10.0.0.5", port, AckBit)) : port \in {80, 443}}
    \cup {TcpPacket("10.0.0.5", 22, AckBit)}

FlagTraffic ==
  {TcpPacket("10.0.0.5", 80, fl) : fl \in {SynBit, AckBit, SynBit + AckBit}}

\* ---------------------------------------------------------------- state
VARIABLES
  args,          \* the parsed command line: one threshold per detector
  traffic,       \* the packets the monitored interface can deliver
  main_pc,       \* main thread: "init", "ready", "sniff", "exited"
  monitor,       \* the fields of the TrafficMonitorCommand object
  packet_queue,  \* self.packet_queue
  pc,            \* worker thread: "get", "process", "task_done", "terminated"
  packet,        \* the packet the worker holds
  uncaught,      \* an exception is propagating out of process_packets
  console,       \* the alerts report_anomaly printed, with the packet's number
  errors,        \* the messages logger.error wrote
  now,           \* the wall clock at its last reading
  ticks,         \* how often the clock was seen to have advanced
  captured,      \* history: the packets enqueued, in order
  dispatched     \* history: the packets process_packet was called on

vars == <<args, traffic, main_pc, monitor, packet_queue, pc, packet, uncaught,
          console, errors, now, ticks, captured, dispatched>>

Detectors ==
  <<"arp_spoof", "dhcp_flood", "port_scan", "dns_exfiltration",
    "bandwidth_abuse", "icmp_flood", "syn_flood", "malformed_packets",
    "rogue_dhcp", "http_abuse">>

\* The object after __init__: flags, empty tracking structures, thresholds.
NewMonitor(a) ==
  [enable_arp_spoof |-> TRUE, enable_dhcp_flood |-> TRUE,
   enable_port_scan |-> TRUE, enable_dns_exfiltration |-> TRUE,
   enable_bandwidth_abuse |-> TRUE, enable_icmp_flood |-> TRUE,
   enable_syn_flood |-> TRUE, enable_malformed_packets |-> TRUE,
   enable_rogue_dhcp |-> TRUE, enable_http_abuse |-> TRUE,
   arp_table |-> [ip \in {} |-> "aa:01"],
   dhcp_requests |-> [mac \in MACs |-> <<>>],
   port_scan_attempts |-> [ip \in IPs |-> {}],
   dns_queries |-> [ip \in IPs |-> 0],
   bandwidth_usage |-> [ip \in IPs |-> 0],
   icmp_requests |-> [ip \in IPs |-> <<>>],
   syn_requests |-> [ip \in IPs |-> <<>>],
   rogue_dhcp_servers |-> [ip \in {} |-> 0],
   http_requests |-> [ip \in IPs |-> 0],
   malformed_packets |-> [ip \in MalformedKeys |-> 0],
   dhcp_threshold |-> a.dhcp_threshold,
   port_scan_threshold |-> a.port_scan_threshold,
   dns_exfil_threshold |-> a.dns_exfil_threshold,
   bandwidth_threshold |-> a.bandwidth_threshold,
   icmp_threshold |-> a.icmp_threshold,
   syn_threshold |-> a.syn_threshold,
   http_threshold |-> a.http_threshold,
   malformed_threshold |-> a.malformed_threshold,
   rogue_dhcp_threshold |-> a.rogue_dhcp_threshold]

\* ------------------------------------------------------------ detectors
\* A detector maps the run of one process_packet call, s, to the run after
\* it: s.self the object, s.out the alerts printed so far for this packet,
\* s.raised the exception in flight, s.failed the detector that raised it,
\* s.ran the detectors called so far.

\* a reporter that puts the newest message first
report_anomaly_first(s, message) == [s EXCEPT !.out = <<message>> \o @]

\* report_anomaly: the message goes to the console
report_anomaly(s, message) == [s EXCEPT !.out = Append(@, message)]

\* reading an attribute of None: getlayer() of a layer the packet lacks
Raise(s) == [s EXCEPT !.raised = "AttributeError"]

\* while dq and dq[0] < cutoff: dq.popleft()
RECURSIVE PopOld(_, _)
PopOld(dq, cutoff) ==
  IF dq # <<>> /\ Head(dq) < cutoff THEN PopOld(Tail(dq), cutoff) ELSE dq

\* flags == 0x02: a bare SYN and nothing else
HasSynOnly(fl) == fl = SynBit

\* flags & 0x02
HasSyn(fl) == (fl \div SynBit) % 2 = 1

\* detect_arp_spoofing without the test of arp.op
detect_arp_spoofing_anyop(s, p) ==
  LET sender_ip == p.psrc
      sender_mac == p.hwsrc
      table == s.self.arp_table
      s1 == IF sender_ip \in DOMAIN table /\ table[sender_ip] # sender_mac
            THEN report_anomaly(s, [detector |-> "arp_spoof", key |-> sender_ip,
                                    is_at |-> sender_mac, was |-> table[sender_ip]])
            ELSE s
  IN [s1 EXCEPT !.self.arp_table =
        [ip \in DOMAIN table \cup {sender_ip} |->
           IF ip = sender_ip THEN sender_mac ELSE table[ip]]]

\* detect_arp_spoofing that keeps the old mapping when it alerts
detect_arp_spoofing_keep(s, p) ==
  IF p.arp_op = ArpIsAt
  THEN LET table == s.self.arp_table
       IN IF p.psrc \in DOMAIN table /\ table[p.psrc] # p.hwsrc
          THEN report_anomaly(s, [detector |-> "arp_spoof", key |-> p.psrc,
                                  is_at |-> p.hwsrc, was |-> table[p.psrc]])
          ELSE [s EXCEPT !.self.arp_table =
                  [ip \in DOMAIN table \cup {p.psrc} |->
                     IF ip = p.psrc THEN p.hwsrc ELSE table[ip]]]
  ELSE s

detect_arp_spoofing(s, p) ==
  IF p.arp_op = ArpIsAt
  THEN LET sender_ip == p.psrc
           sender_mac == p.hwsrc
           table == s.self.arp_table
           s1 == IF sender_ip \in DOMAIN table /\ table[sender_ip] # sender_mac
                 THEN report_anomaly(s, [detector |-> "arp_spoof", key |-> sender_ip,
                                         is_at |-> sender_mac, was |-> table[sender_ip]])
                 ELSE s
       IN [s1 EXCEPT !.self.arp_table =
             [ip \in DOMAIN table \cup {sender_ip} |->
                IF ip = sender_ip THEN sender_mac ELSE table[ip]]]
  ELSE s

\* detect_dhcp_flood comparing with >= in the place of >
detect_dhcp_flood_ge(s, p, current_time) ==
  IF ~p.ether THEN Raise(s)
  ELSE LET client_mac == p.eth_src
           window == PopOld(Append(s.self.dhcp_requests[client_mac], current_time),
                            current_time - one_minute)
       IN IF Len(window) >= s.self.dhcp_threshold
          THEN [report_anomaly(s, [detector |-> "dhcp_flood", key |-> client_mac,
                                   count |-> Len(window)])
                  EXCEPT !.self.dhcp_requests[client_mac] = <<>>]
          ELSE [s EXCEPT !.self.dhcp_requests[client_mac] = window]

detect_dhcp_flood(s, p, current_time) ==
  IF ~p.ether THEN Raise(s)
  ELSE LET client_mac == p.eth_src
           window == PopOld(Append(s.self.dhcp_requests[client_mac], current_time),
                            current_time - one_minute)
       IN IF Len(window) > s.self.dhcp_threshold
          THEN [report_anomaly(s, [detector |-> "dhcp_flood", key |-> client_mac,
                                   count |-> Len(window)])
                  EXCEPT !.self.dhcp_requests[client_mac] = <<>>]
          ELSE [s EXCEPT !.self.dhcp_requests[client_mac] = window]

\* detect_port_scan without the clear() after the alert
detect_port_scan_noclear(s, p) ==
  IF ~p.ip THEN Raise(s)
  ELSE LET src_ip == p.src
           seen == s.self.port_scan_attempts[src_ip] \cup {p.dport}
           s1 == [s EXCEPT !.self.port_scan_attempts[src_ip] = seen]
       IN IF Cardinality(seen) > s.self.port_scan_threshold
          THEN report_anomaly(s1, [detector |-> "port_scan", key |-> src_ip,
                                   count |-> Cardinality(seen)])
          ELSE s1

detect_port_scan(s, p) ==
  IF ~p.ip THEN Raise(s)
  ELSE LET src_ip == p.src
           seen == s.self.port_scan_attempts[src_ip] \cup {p.dport}
       IN IF Cardinality(seen) > s.self.port_scan_threshold
          THEN [report_anomaly(s, [detector |-> "port_scan", key |-> src_ip,
                                   count |-> Cardinality(seen)])
                  EXCEPT !.self.port_scan_attempts[src_ip] = {}]
          ELSE [s EXCEPT !.self.port_scan_attempts[src_ip] = seen]

\* detect_dns_exfiltration without the reset after the alert
detect_dns_exfiltration_noreset(s, p, current_time) ==
  IF ~p.ip THEN Raise(s)
  ELSE LET src_ip == p.src
           n == s.self.dns_queries[src_ip] + 1
           s1 == [s EXCEPT !.self.dns_queries[src_ip] = n]
       IN IF n > s.self.dns_exfil_threshold
          THEN report_anomaly(s1, [detector |-> "dns_exfiltration", key |-> src_ip,
                                   count |-> n])
          ELSE s1

detect_dns_exfiltration(s, p, current_time) ==
  IF ~p.ip THEN Raise(s)
  ELSE LET src_ip == p.src
           n == s.self.dns_queries[src_ip] + 1
       IN IF n > s.self.dns_exfil_threshold
          THEN [report_anomaly(s, [detector |-> "dns_exfiltration", key |-> src_ip,
                                   count |-> n])
                  EXCEPT !.self.dns_queries[src_ip] = 0]
          ELSE [s EXCEPT !.self.dns_queries[src_ip] = n]

\* detect_bandwidth_abuse that forgets all it knows of the source when it
\* alerts: its SYN window too
detect_bandwidth_abuse_shared(s, p, current_time) ==
  LET src_ip == p.src
      n == s.self.bandwidth_usage[src_ip] + p.length
  IN IF n > s.self.bandwidth_threshold
     THEN [report_anomaly(s, [detector |-> "bandwidth_abuse", key |-> src_ip,
                              count |-> n])
             EXCEPT !.self.bandwidth_usage[src_ip] = 0,
                    !.self.syn_requests[src_ip] = <<>>]
     ELSE [s EXCEPT !.self.bandwidth_usage[src_ip] = n]

\* detect_bandwidth_abuse comparing with >= in the place of >
detect_bandwidth_abuse_ge(s, p, current_time) ==
  LET src_ip == p.src
      n == s.self.bandwidth_usage[src_ip] + p.length
  IN IF n >= s.self.bandwidth_threshold
     THEN [report_anomaly(s, [detector |-> "bandwidth_abuse", key |-> src_ip,
                              count |-> n])
             EXCEPT !.self.bandwidth_usage[src_ip] = 0]
     ELSE [s EXCEPT !.self.bandwidth_usage[src_ip] = n]

detect_bandwidth_abuse(s, p, current_time) ==
  LET src_ip == p.src
      n == s.self.bandwidth_usage[src_ip] + p.length
  IN IF n > s.self.bandwidth_threshold
     THEN [report_anomaly(s, [detector |-> "bandwidth_abuse", key |-> src_ip,
                              count |-> n])
             EXCEPT !.self.bandwidth_usage[src_ip] = 0]
     ELSE [s EXCEPT !.self.bandwidth_usage[src_ip] = n]

\* detect_icmp_flood with the clear() after the alert that the DHCP and SYN
\* detectors have
detect_icmp_flood_clear(s, p, current_time) ==
  IF ~p.ip THEN Raise(s)
  ELSE LET src_ip == p.src
           window == PopOld(Append(s.self.icmp_requests[src_ip], current_time),
                            current_time - one_minute)
       IN IF Len(window) > s.self.icmp_threshold
          THEN [report_anomaly(s, [detector |-> "icmp_flood", key |-> src_ip,
                                   count |-> Len(window)])
                  EXCEPT !.self.icmp_requests[src_ip] = <<>>]
          ELSE [s EXCEPT !.self.icmp_requests[src_ip] = window]

\* detect_icmp_flood that counts before it drops the old entries
detect_icmp_flood_unpruned(s, p, current_time) ==
  IF ~p.ip THEN Raise(s)
  ELSE LET src_ip == p.src
           all == Append(s.self.icmp_requests[src_ip], current_time)
           s1 == [s EXCEPT !.self.icmp_requests[src_ip] =
                                PopOld(all, current_time - one_minute)]
       IN IF Len(all) > s.self.icmp_threshold
          THEN report_anomaly(s1, [detector |-> "icmp_flood", key |-> src_ip,
                                   count |-> Len(all)])
          ELSE s1

detect_icmp_flood(s, p, current_time) ==
  IF ~p.ip THEN Raise(s)
  ELSE LET src_ip == p.src
           window == PopOld(Append(s.self.icmp_requests[src_ip], current_time),
                            current_time - one_minute)
           s1 == [s EXCEPT !.self.icmp_requests[src_ip] = window]
       IN IF Len(window) > s.self.icmp_threshold
          THEN report_anomaly(s1, [detector |-> "icmp_flood", key |-> src_ip,
                                   count |-> Len(window)])
          ELSE s1

\* detect_syn_flood that empties the windows of all sources when it alerts
detect_syn_flood_clearall(s, p, current_time) ==
  IF ~p.flags_ok THEN Raise(s)
  ELSE IF ~HasSyn(p.flags) THEN s
  ELSE IF ~p.ip THEN Raise(s)
  ELSE LET src_ip == p.src
           window == PopOld(Append(s.self.syn_requests[src_ip], current_time),
                            current_time - one_minute)
       IN IF Len(window) > s.self.syn_threshold
          THEN [report_anomaly(s, [detector |-> "syn_flood", key |-> src_ip,
                                   count |-> Len(window)])
                  EXCEPT !.self.syn_requests = [ip \in IPs |-> <<>>]]
          ELSE [s EXCEPT !.self.syn_requests[src_ip] = window]

\* detect_syn_flood without the clear() after the alert, as in detect_icmp_flood
detect_syn_flood_noclear(s, p, current_time) ==
  IF ~p.flags_ok THEN Raise(s)
  ELSE IF ~HasSyn(p.flags) THEN s
  ELSE IF ~p.ip THEN Raise(s)
  ELSE LET src_ip == p.src
           window == PopOld(Append(s.self.syn_requests[src_ip], current_time),
                            current_time - one_minute)
           s1 == [s EXCEPT !.self.syn_requests[src_ip] = window]
       IN IF Len(window) > s.self.syn_threshold
          THEN report_anomaly(s1, [detector |-> "syn_flood", key |-> src_ip,
                                   count |-> Len(window)])
          ELSE s1

detect_syn_flood(s, p, current_time) ==
  IF ~p.flags_ok THEN Raise(s)
  ELSE IF ~HasSyn(p.flags) THEN s
  ELSE IF ~p.ip THEN Raise(s)
  ELSE LET src_ip == p.src
           window == PopOld(Append(s.self.syn_requests[src_ip], current_time),
                            current_time - one_minute)
       IN IF Len(window) > s.self.syn_threshold
          THEN [report_anomaly(s, [detector |-> "syn_flood", key |-> src_ip,
                                   count |-> Len(window)])
                  EXCEPT !.self.syn_requests[src_ip] = <<>>]
          ELSE [s EXCEPT !.self.syn_requests[src_ip] = window]

\* the try block of detect_malformed_packets raises
FieldAccessFails(p) ==
  p.ip /\ IF p.tcp THEN ~p.flags_ok ELSE p.udp /\ ~p.sport_ok

detect_malformed_packets(s, p, current_time) ==
  IF FieldAccessFails(p)
  THEN LET src_ip == IF p.ip THEN p.src ELSE "Unknown"
           n == s.self.malformed_packets[src_ip] + 1
       IN IF n > s.self.malformed_threshold
          THEN [report_anomaly(s, [detector |-> "malformed_packets", key |-> src_ip,
                                   count |-> n])
                  EXCEPT !.self.malformed_packets[src_ip] = 0]
          ELSE [s EXCEPT !.self.malformed_packets[src_ip] = n]
  ELSE s

\* detect_rogue_dhcp without the clear() after the alert
detect_rogue_dhcp_noclear(s, p, current_time) ==
  IF p.message_type = DhcpOffer
  THEN IF ~p.ip THEN Raise(s)
       ELSE LET server_ip == p.src
                servers == s.self.rogue_dhcp_servers
                recorded == [ip \in DOMAIN servers \cup {server_ip} |->
                               IF ip = server_ip THEN current_time ELSE servers[ip]]
                keys_to_remove == {ip \in DOMAIN recorded :
                                     recorded[ip] < current_time - one_hour}
                kept == [ip \in DOMAIN recorded \ keys_to_remove |-> recorded[ip]]
                s1 == [s EXCEPT !.self.rogue_dhcp_servers = kept]
            IN IF Cardinality(DOMAIN kept) > s.self.rogue_dhcp_threshold
               THEN report_anomaly(s1, [detector |-> "rogue_dhcp", key |-> server_ip])
               ELSE s1
  ELSE s

\* detect_rogue_dhcp without the eviction of entries older than one hour
detect_rogue_dhcp_noevict(s, p, current_time) ==
  IF p.message_type = DhcpOffer
  THEN IF ~p.ip THEN Raise(s)
       ELSE LET server_ip == p.src
                servers == s.self.rogue_dhcp_servers
                recorded == [ip \in DOMAIN servers \cup {server_ip} |->
                               IF ip = server_ip THEN current_time ELSE servers[ip]]
            IN IF Cardinality(DOMAIN recorded) > s.self.rogue_dhcp_threshold
               THEN [report_anomaly(s, [detector |-> "rogue_dhcp", key |-> server_ip])
                       EXCEPT !.self.rogue_dhcp_servers = [ip \in {} |-> 0]]
               ELSE [s EXCEPT !.self.rogue_dhcp_servers = recorded]
  ELSE s

detect_rogue_dhcp(s, p, current_time) ==
  IF p.message_type = DhcpOffer
  THEN IF ~p.ip THEN Raise(s)
       ELSE LET server_ip == p.src
                servers == s.self.rogue_dhcp_servers
                recorded == [ip \in DOMAIN servers \cup {server_ip} |->
                               IF ip = server_ip THEN current_time ELSE servers[ip]]
                keys_to_remove == {ip \in DOMAIN recorded :
                                     recorded[ip] < current_time - one_hour}
                kept == [ip \in DOMAIN recorded \ keys_to_remove |-> recorded[ip]]
            IN IF Cardinality(DOMAIN kept) > s.self.rogue_dhcp_threshold
               THEN [report_anomaly(s, [detector |-> "rogue_dhcp", key |-> server_ip])
                       EXCEPT !.self.rogue_dhcp_servers = [ip \in {} |-> 0]]
               ELSE [s EXCEPT !.self.rogue_dhcp_servers = kept]
  ELSE s

\* detect_http_abuse comparing with >= in the place of >
detect_http_abuse_ge(s, p, current_time) ==
  IF ~p.ip THEN Raise(s)
  ELSE LET src_ip == p.src
           n == s.self.http_requests[src_ip] + 1
       IN IF n >= s.self.http_threshold
          THEN [report_anomaly(s, [detector |-> "http_abuse", key |-> src_ip,
                                   count |-> n])
                  EXCEPT !.self.http_requests[src_ip] = 0]
          ELSE [s EXCEPT !.self.http_requests[src_ip] = n]

\* detect_http_abuse without the reset after the alert
detect_http_abuse_noreset(s, p, current_time) ==
  IF ~p.ip THEN Raise(s)
  ELSE LET src_ip == p.src
           n == s.self.http_requests[src_ip] + 1
           s1 == [s EXCEPT !.self.http_requests[src_ip] = n]
       IN IF n > s.self.http_threshold
          THEN report_anomaly(s1, [detector |-> "http_abuse", key |-> src_ip,
                                   count |-> n])
          ELSE s1

detect_http_abuse(s, p, current_time) ==
  IF ~p.ip THEN Raise(s)
  ELSE LET src_ip == p.src
           n == s.self.http_requests[src_ip] + 1
       IN IF n > s.self.http_threshold
          THEN [report_anomaly(s, [detector |-> "http_abuse", key |-> src_ip,
                                   count |-> n])
                  EXCEPT !.self.http_requests[src_ip] = 0]
          ELSE [s EXCEPT !.self.http_requests[src_ip] = n]

\* ------------------------------------------------------------- dispatch
\* Call with every detector in a try block of its own
CallIsolated(s, applies, name, result) ==
  IF applies
  THEN [result EXCEPT !.ran = Append(@, name),
                      !.failed = IF s.failed = "none" /\ result.raised # "none"
                                 THEN name ELSE s.failed]
  ELSE s

\* One "if self.enable_x and packet.haslayer(X): self.detect_x(...)" of
\* process_packet: skipped while an exception is in flight, since the
\* exception leaves process_packet at the statement that raised it.
Call(s, applies, name, result) ==
  IF s.raised # "none" THEN s
  ELSE IF applies
  THEN [result EXCEPT !.ran = Append(@, name),
                      !.failed = IF result.raised # "none" THEN name ELSE "none"]
  ELSE s

\* the condition under which process_packet calls a detector
Applies(obj, name, p) ==
  CASE name = "arp_spoof" -> obj.enable_arp_spoof /\ p.arp
    [] name = "dhcp_flood" -> obj.enable_dhcp_flood /\ p.dhcp
    [] name = "port_scan" -> obj.enable_port_scan /\ p.tcp
    [] name = "dns_exfiltration" -> obj.enable_dns_exfiltration /\ p.dns /\ p.qr = 0
    [] name = "bandwidth_abuse" -> obj.enable_bandwidth_abuse /\ p.ip
    [] name = "icmp_flood" -> obj.enable_icmp_flood /\ p.icmp
    [] name = "syn_flood" -> obj.enable_syn_flood /\ p.tcp
    [] name = "malformed_packets" -> obj.enable_malformed_packets
    [] name = "rogue_dhcp" -> obj.enable_rogue_dhcp /\ p.dhcp
    [] name = "http_abuse" -> obj.enable_http_abuse /\ p.tcp /\ p.raw

\* the detector called under the name
Detect(name, s, p, current_time) ==
  CASE name = "arp_spoof" -> detect_arp_spoofing(s, p)
    [] name = "dhcp_flood" -> detect_dhcp_flood(s, p, current_time)
    [] name = "port_scan" -> detect_port_scan(s, p)
    [] name = "dns_exfiltration" -> detect_dns_exfiltration(s, p, current_time)
    [] name = "bandwidth_abuse" -> detect_bandwidth_abuse(s, p, current_time)
    [] name = "icmp_flood" -> detect_icmp_flood(s, p, current_time)
    [] name = "syn_flood" -> detect_syn_flood(s, p, current_time)
    [] name = "malformed_packets" -> detect_malformed_packets(s, p, current_time)
    [] name = "rogue_dhcp" -> detect_rogue_dhcp(s, p, current_time)
    [] name = "http_abuse" -> detect_http_abuse(s, p, current_time)

\* the statements of process_packet from the k-th on, run after s; each run
\* is computed once, as the only element x of a set, before the next starts
RECURSIVE RunFrom(_, _, _, _)
RunFrom(s, k, p, current_time) ==
  IF k > Len(Detectors) THEN s
  ELSE CHOOSE r \in
         {RunFrom(x, k + 1, p, current_time) :
            x \in {Call(s, Applies(s.self, Detectors[k], p), Detectors[k],
                        Detect(Detectors[k], s, p, current_time))}} : TRUE

process_packet(obj, p, current_time) ==
  RunFrom([self |-> obj, out |-> <<>>, raised |-> "none", failed |-> "none",
           ran |-> <<>>], 1, p, current_time)

\* "except KeyError" in the place of "except Exception"
CatchesKeyError(exc) == exc = "KeyError"

\* "except Exception" of process_packets: the exception classes it handles
Catches(exc) == exc \in {"AttributeError", "KeyError", "TypeError", "Exception"}

\* queue.LifoQueue in the place of queue.Queue
get_newest(q) == [item |-> q[Len(q)], rest |-> SubSeq(q, 1, Len(q) - 1)]

\* queue.Queue(): no maxsize, put() appends, get() takes the oldest item
put(q, item) == Append(q, item)
Full(q) == FALSE
get(q) == [item |-> Head(q), rest |-> Tail(q)]

\* datetime.now(): since the previous reading the clock has stood still or
\* advanced by half a minute, a minute or an hour
TickSteps == {1, one_minute, one_hour}

\* a thread that is not a daemon: it goes on after the main thread exited
WorkerAliveNonDaemon == TRUE

\* Thread(..., daemon=True): the worker runs until the process exits
WorkerAlive == main_pc # "exited"

\* -------------------------------------------------------------- actions
\* __init__ after the worker thread was started: the fields are assigned
Construct ==
  /\ main_pc = "init"
  /\ monitor' = NewMonitor(args)
  /\ main_pc' = "ready"
  /\ UNCHANGED <<args, traffic, packet_queue, pc, packet, uncaught, console,
                 errors, now, ticks, captured, dispatched>>

\* execute(): sniff() starts delivering packets to the callback
Execute ==
  /\ main_pc = "ready"
  /\ main_pc' = "sniff"
  /\ UNCHANGED <<args, traffic, monitor, packet_queue, pc, packet, uncaught,
                 console, errors, now, ticks, captured, dispatched>>

\* a capture that is started inside the constructor, next to the worker
CaptureEarly ==
  /\ main_pc \in {"init", "sniff"}
  /\ Len(captured) < MaxPackets
  /\ ~Full(packet_queue)
  /\ \E p \in traffic :
       /\ packet_queue' = put(packet_queue, p)
       /\ captured' = Append(captured, p)
  /\ UNCHANGED <<args, traffic, main_pc, monitor, pc, packet, uncaught, console,
                 errors, now, ticks, dispatched>>

\* a callback that keeps the byte count itself before it enqueues
CaptureCounting ==
  /\ main_pc = "sniff"
  /\ Len(captured) < MaxPackets
  /\ ~Full(packet_queue)
  /\ \E p \in traffic :
       /\ packet_queue' = put(packet_queue, p)
       /\ captured' = Append(captured, p)
       /\ monitor' = [monitor EXCEPT !.bandwidth_usage[p.src] = @ + p.length]
  /\ UNCHANGED <<args, traffic, main_pc, pc, packet, uncaught, console,
                 errors, now, ticks, dispatched>>

\* the sniff callback: lambda pkt: self.packet_queue.put(pkt)
Capture ==
  /\ main_pc = "sniff"
  /\ Len(captured) < MaxPackets
  /\ ~Full(packet_queue)
  /\ \E p \in traffic :
       /\ packet_queue' = put(packet_queue, p)
       /\ captured' = Append(captured, p)
  /\ UNCHANGED <<args, traffic, main_pc, monitor, pc, packet, uncaught, console,
                 errors, now, ticks, dispatched>>

\* sniff() ends or is interrupted: sys.exit, the daemon worker dies with it
Stop ==
  /\ main_pc = "sniff"
  /\ main_pc' = "exited"
  /\ UNCHANGED <<args, traffic, monitor, packet_queue, pc, packet, uncaught,
                 console, errors, now, ticks, captured, dispatched>>

\* packet = self.packet_queue.get(): blocks while the queue is empty
Get ==
  /\ pc = "get"
  /\ WorkerAlive
  /\ packet_queue # <<>>
  /\ packet' = get(packet_queue).item
  /\ packet_queue' = get(packet_queue).rest
  /\ pc' = "process"
  /\ UNCHANGED <<args, traffic, main_pc, monitor, uncaught, console, errors,
                 now, ticks, captured, dispatched>>

\* process_packets that undoes what a failed packet changed and printed
ProcessPacketRollback ==
  /\ pc = "process"
  /\ WorkerAlive
  /\ \E d \in {0} \cup TickSteps :
       /\ d = 0 \/ ticks < MaxTicks
       /\ now' = now + d
       /\ ticks' = IF d = 0 THEN ticks ELSE ticks + 1
  /\ LET r == process_packet(monitor, packet, now')
         n == Len(dispatched) + 1
         failed == r.raised # "none"
     IN /\ monitor' = IF failed THEN monitor ELSE r.self
        /\ console' = IF failed THEN console
                      ELSE console \o [i \in 1..Len(r.out) |-> [msg |-> r.out[i], at |-> n]]
        /\ dispatched' = Append(dispatched,
             [packet |-> packet, time |-> now', ran |-> r.ran,
              raised |-> failed, failed |-> r.failed, at |-> n])
        /\ errors' = IF failed /\ Catches(r.raised)
                     THEN Append(errors, [exc |-> r.raised, at |-> n])
                     ELSE errors
        /\ uncaught' = (failed /\ ~Catches(r.raised))
  /\ pc' = "task_done"
  /\ UNCHANGED <<args, traffic, main_pc, packet_queue, packet, captured>>

\* try: self.process_packet(packet) / except Exception: logger.error(...)
ProcessPacket ==
  /\ pc = "process"
  /\ WorkerAlive
  /\ \E d \in {0} \cup TickSteps :
       /\ d = 0 \/ ticks < MaxTicks
       /\ now' = now + d
       /\ ticks' = IF d = 0 THEN ticks ELSE ticks + 1
  /\ LET r == process_packet(monitor, packet, now')
         n == Len(dispatched) + 1
     IN /\ monitor' = r.self
        /\ console' = console \o [i \in 1..Len(r.out) |-> [msg |-> r.out[i], at |-> n]]
        /\ dispatched' = Append(dispatched,
             [packet |-> packet, time |-> now', ran |-> r.ran,
              raised |-> r.raised # "none", failed |-> r.failed, at |-> n])
        /\ errors' = IF r.raised # "none" /\ Catches(r.raised)
                     THEN Append(errors, [exc |-> r.raised, at |-> n])
                     ELSE errors
        /\ uncaught' = (r.raised # "none" /\ ~Catches(r.raised))
  /\ pc' = "task_done"
  /\ UNCHANGED <<args, traffic, main_pc, packet_queue, packet, captured>>

\* finally: self.packet_queue.task_done(), then the loop or the propagation
TaskDone ==
  /\ pc = "task_done"
  /\ WorkerAlive
  /\ pc' = IF uncaught THEN "terminated" ELSE "get"
  /\ UNCHANGED <<args, traffic, main_pc, monitor, packet_queue, packet, uncaught,
                 console, errors, now, ticks, captured, dispatched>>

Next ==
  \/ Construct
  \/ Execute
  \/ Capture
  \/ Stop
  \/ Get
  \/ ProcessPacket
  \/ TaskDone

\* ------------------------------------------------------- specifications
DefaultArgs ==
  [dhcp_threshold |-> DefaultDhcpThreshold,
   port_scan_threshold |-> DefaultPortScanThreshold,
   dns_exfil_threshold |-> DefaultDnsExfilThreshold,
   bandwidth_threshold |-> DefaultBandwidthThreshold,
   icmp_threshold |-> DefaultIcmpThreshold,
   syn_threshold |-> DefaultSynThreshold,
   http_threshold |-> DefaultHttpThreshold,
   malformed_threshold |-> DefaultMalformedThreshold,
   rogue_dhcp_threshold |-> DefaultRogueDhcpThreshold]

Thresholds == 0..MaxThreshold

\* The worker thread was started (blocked in get) and no field is assigned.
InitWith(tr, argset) ==
  /\ args \in argset
  /\ traffic = tr
  /\ main_pc = "init"
  /\ monitor = <<>>
  /\ packet_queue = <<>>
  /\ pc = "get"
  /\ packet = NoLayers
  /\ uncaught = FALSE
  /\ console = <<>>
  /\ errors = <<>>
  /\ now = 0
  /\ ticks = 0
  /\ captured = <<>>
  /\ dispatched = <<>>

Init == InitWith(MixedTraffic, {DefaultArgs})
Spec == Init /\ [][Next]_vars

InitSyn ==
  InitWith(SynTraffic, {[DefaultArgs EXCEPT !.syn_threshold = t] : t \in Thresholds})
SpecSyn == InitSyn /\ [][Next]_vars

InitDhcp ==
  InitWith(DhcpTraffic, {[DefaultArgs EXCEPT !.dhcp_threshold = t] : t \in Thresholds})
SpecDhcp == InitDhcp /\ [][Next]_vars

InitPort ==
  InitWith(PortTraffic,
           {[DefaultArgs EXCEPT !.port_scan_threshold = t] : t \in Thresholds})
SpecPort == InitPort /\ [][Next]_vars

InitArp == InitWith(ArpTraffic, {DefaultArgs})
SpecArp == InitArp /\ [][Next]_vars

InitRogue ==
  InitWith(RogueTraffic,
           {[DefaultArgs EXCEPT !.rogue_dhcp_threshold = t] : t \in Thresholds})
SpecRogue == InitRogue /\ [][Next]_vars

InitMalformed ==
  InitWith(MalformedTraffic,
           {[DefaultArgs EXCEPT !.malformed_threshold = t] : t \in Thresholds})
SpecMalformed == InitMalformed /\ [][Next]_vars

\* every threshold option given the same value
UniformArgs(t) ==
  [dhcp_threshold |-> t, port_scan_threshold |-> t, dns_exfil_threshold |-> t,
   bandwidth_threshold |-> t, icmp_threshold |-> t, syn_threshold |-> t,
   http_threshold |-> t, malformed_threshold |-> t, rogue_dhcp_threshold |-> t]

InitOrder == InitWith(OrderTraffic, {UniformArgs(t) : t \in Thresholds})
SpecOrder == InitOrder /\ [][Next]_vars

InitFlood ==
  InitWith(FloodTraffic,
           {[DefaultArgs EXCEPT !.icmp_threshold = t, !.syn_threshold = t,
                                !.dhcp_threshold = t] : t \in Thresholds})
SpecFlood == InitFlood /\ [][Next]_vars

InitDns ==
  InitWith(DnsTraffic,
           {[DefaultArgs EXCEPT !.dns_exfil_threshold = t] : t \in Thresholds})
SpecDns == InitDns /\ [][Next]_vars

\* type=int of the threshold options: argparse accepts every integer
IntArgs == (-1)..MaxThreshold

InitInt ==
  InitWith(LiveTraffic, {[DefaultArgs EXCEPT !.syn_threshold = t] : t \in IntArgs})
SpecInt == InitInt /\ [][Next]_vars

InitKeys ==
  \E tr \in KeyTraffics : InitWith(tr, {UniformArgs(t) : t \in Thresholds})
SpecKeys == InitKeys /\ [][Next]_vars

InitAbort == InitWith(AbortTraffic, {UniformArgs(t) : t \in Thresholds})
SpecAbort == InitAbort /\ [][Next]_vars

InitFlags ==
  InitWith(FlagTraffic, {[DefaultArgs EXCEPT !.syn_threshold = t] : t \in Thresholds})
SpecFlags == InitFlags /\ [][Next]_vars

\* The worker is a thread of its own: whenever it can take its next step
\* it is scheduled to take it.
InitLive == InitWith(LiveTraffic, {DefaultArgs})
SpecLive ==
  /\ InitLive
  /\ [][Next]_vars
  /\ WF_vars(Get)
  /\ WF_vars(ProcessPacket)
  /\ WF_vars(TaskDone)

InitBandwidth ==
  InitWith(BandwidthTraffic,
           {[DefaultArgs EXCEPT !.bandwidth_threshold = t] : t \in Thresholds})
SpecBandwidth == InitBandwidth /\ [][Next]_vars

InitHttp ==
  InitWith(HttpTraffic,
           {[DefaultArgs EXCEPT !.http_threshold = t] : t \in Thresholds})
SpecHttp == InitHttp /\ [][Next]_vars

\* ------------------------------------------------------ history helpers
Constructed == main_pc # "init"
Idx == 1..Len(dispatched)
Range(f) == {f[i] : i \in DOMAIN f}
Max(S) == CHOOSE x \in S : \A y \in S : y <= x
Min(S) == CHOOSE x \in S : \A y \in S : x <= y

\* the detectors process_packet's conditions select for packet p, in order
Applicable(p) ==
  LET A(name) == Applies(monitor, name, p) IN SelectSeq(Detectors, A)

\* the alerts of one detector for one key, in the order printed
AlertsOf(det, key) ==
  LET A(e) == e.msg.detector = det /\ e.msg.key = key IN SelectSeq(console, A)

\* the alerts of one detector printed while packet number i was dispatched
AlertsAt(det, i) ==
  {k \in 1..Len(console) : console[k].msg.detector = det /\ console[k].at = i}

\* --------------------------------------------------------------- claims
\* C1: an exception raised by a detector never terminates the dispatch loop:
\* the worker never leaves the loop, every failed packet is logged once, and
\* the packets dispatched (failed ones included) are the packets captured,
\* so the packet queued behind a failing one is the next one dispatched.
C1_FaultIsolation ==
  /\ pc # "terminated"
  /\ ~uncaught
  /\ \A i \in Idx :
       /\ dispatched[i].packet = captured[i]
       /\ Cardinality({k \in 1..Len(errors) : errors[k].at = i})
            = IF dispatched[i].raised THEN 1 ELSE 0

\* a packet failed and a later packet was dispatched and completed
C1_Witness ==
  \E i, j \in Idx :
    i < j /\ dispatched[i].raised /\ ~dispatched[j].raised /\ pc = "get"

C3_LosslessFifo ==
  /\ [i \in Idx |-> dispatched[i].packet]
       \o (IF pc = "process" THEN <<packet>> ELSE <<>>)
       \o packet_queue
     = captured
  /\ (main_pc = "sniff" /\ Len(captured) < MaxPackets) => ENABLED Capture

\* two different packets wait in the queue behind dispatched ones
C3_Witness ==
  /\ Len(packet_queue) >= 2
  /\ packet_queue[1] # packet_queue[2]
  /\ Len(dispatched) >= 1

\* the dispatched packets detector det was called on and returned from
Handled(det) ==
  LET H(e) == det \in Range(e.ran) /\ e.failed # det IN SelectSeq(dispatched, H)

\* the SYN packets of source ip that detect_syn_flood handled
SynEvents(ip) ==
  LET Q(e) == e.packet.src = ip /\ HasSyn(e.packet.flags)
  IN SelectSeq(Handled("syn_flood"), Q)

\* every entry of a history lies within one minute of the first
WithinOneMinute(ev) == ev # <<>> => ev[Len(ev)].time - ev[1].time <= one_minute

\* n qualifying packets of one key, all within one minute, with threshold T:
\* one alert on every (T+1)-th of them, each reporting T+1, and the window
\* holds what arrived since the last alert
FloodCounts(ev, al, window, T) ==
  /\ Len(al) = Len(ev) \div (T + 1)
  /\ \A k \in 1..Len(al) :
       al[k].msg.count = T + 1 /\ al[k].at = ev[k * (T + 1)].at
  /\ Len(window) = Len(ev) % (T + 1)

\* C4: with SYN threshold T, SYN packets of one source IP dispatched within
\* one minute give one alert on the (T+1)-th, naming the IP and the count
\* T+1; the window is then empty, the next SYN gives no alert, and the next
\* alert comes with the (T+1)-th SYN after it.
C4_SynFlood ==
  Constructed =>
    \A ip \in IPs :
      WithinOneMinute(SynEvents(ip)) =>
        FloodCounts(SynEvents(ip), AlertsOf("syn_flood", ip),
                    monitor.syn_requests[ip], monitor.syn_threshold)

\* T+2 SYN packets of one IP within a minute, T >= 1: one alert, on the
\* (T+1)-th, and the one after it started a new window without alerting
C4_Witness ==
  /\ Constructed
  /\ monitor.syn_threshold >= 1
  /\ \E ip \in IPs :
       /\ Len(SynEvents(ip)) = monitor.syn_threshold + 2
       /\ WithinOneMinute(SynEvents(ip))
       /\ Len(AlertsOf("syn_flood", ip)) = 1
       /\ Len(monitor.syn_requests[ip]) = 1

\* the DHCP packets with link-layer source mac that detect_dhcp_flood handled
DhcpEvents(mac) ==
  LET Q(e) == e.packet.eth_src = mac IN SelectSeq(Handled("dhcp_flood"), Q)

OnlyRequests(ev) == \A k \in 1..Len(ev) : ev[k].packet.message_type = DhcpRequest

\* C5: with DHCP threshold T, DHCP requests of one MAC within 60 seconds
\* give one alert on the (T+1)-th request, after which the MAC's window is
\* empty; the request after the alert does not alert, and the next alert
\* comes with the (T+1)-th request after it.
C5_DhcpFlood ==
  Constructed =>
    \A mac \in MACs :
      (OnlyRequests(DhcpEvents(mac)) /\ WithinOneMinute(DhcpEvents(mac))) =>
        FloodCounts(DhcpEvents(mac), AlertsOf("dhcp_flood", mac),
                    monitor.dhcp_requests[mac], monitor.dhcp_threshold)

\* T+2 requests of one MAC within a minute, T >= 1: one alert, and the
\* request after it is alone in the window
C5_Witness ==
  /\ Constructed
  /\ monitor.dhcp_threshold >= 1
  /\ \E mac \in MACs :
       /\ Len(DhcpEvents(mac)) = monitor.dhcp_threshold + 2
       /\ OnlyRequests(DhcpEvents(mac))
       /\ WithinOneMinute(DhcpEvents(mac))
       /\ Len(AlertsOf("dhcp_flood", mac)) = 1
       /\ Len(monitor.dhcp_requests[mac]) = 1

\* the TCP packets of source ip that detect_port_scan handled
PortEvents(ip) ==
  LET Q(e) == e.packet.src = ip IN SelectSeq(Handled("port_scan"), Q)

\* the destination ports of the first j entries of a history
PortsUpTo(ev, j) == {ev[k].packet.dport : k \in 1..j}

\* C6: with port-scan threshold T, the first alert for a source IP comes with
\* the packet that brings its distinct destination ports to T+1 and reports
\* T+1; every alert clears the set, which otherwise holds exactly the ports
\* seen since the last alert, repeated ports counting once and no port
\* leaving the set as time passes.
C6_PortScan ==
  Constructed =>
    \A ip \in IPs :
      LET ev == PortEvents(ip)
          al == AlertsOf("port_scan", ip)
          T == monitor.port_scan_threshold
          last == IF al = <<>> THEN 0 ELSE al[Len(al)].at
          full == {j \in 1..Len(ev) : Cardinality(PortsUpTo(ev, j)) = T + 1}
      IN /\ monitor.port_scan_attempts[ip]
              = {ev[k].packet.dport : k \in {j \in 1..Len(ev) : ev[j].at > last}}
         /\ Cardinality(monitor.port_scan_attempts[ip]) <= T
         /\ \A k \in 1..Len(al) : al[k].msg.count = T + 1
         /\ (al = <<>>) = (full = {})
         /\ al # <<>> => al[1].at = ev[Min(full)].at

\* one IP, a repeated port, then a new port more than an hour later: the
\* single alert comes with the new port
C6_Witness ==
  /\ Constructed
  /\ monitor.port_scan_threshold = 1
  /\ \E ip \in IPs :
       LET ev == PortEvents(ip)
           al == AlertsOf("port_scan", ip)
       IN /\ Len(ev) = 3
          /\ ev[1].packet.dport = ev[2].packet.dport
          /\ ev[3].time - ev[1].time > one_hour
          /\ Len(al) = 1
          /\ al[1].at = ev[3].at

\* the ARP replies detect_arp_spoofing handled
IsReply(e) == "arp_spoof" \in Range(e.ran) /\ e.packet.arp_op = ArpIsAt

\* the replies for the sender IP of reply number i that came before it
EarlierReplies(i) ==
  {j \in 1..(i - 1) :
     IsReply(dispatched[j]) /\ dispatched[j].packet.psrc = dispatched[i].packet.psrc}

\* C7: an ARP reply gives an alert exactly when its sender MAC differs from
\* the MAC of the latest earlier reply for the same sender IP (one alert,
\* naming the new and the old MAC); no other packet gives one; and the table
\* maps every sender IP to the MAC of its latest reply.
C7_ArpSpoofing ==
  Constructed =>
    /\ \A i \in Idx :
         LET e == dispatched[i]
             al == AlertsAt("arp_spoof", i)
             prev == EarlierReplies(i)
         IN IF IsReply(e) /\ prev # {}
                /\ dispatched[Max(prev)].packet.hwsrc # e.packet.hwsrc
            THEN /\ Cardinality(al) = 1
                 /\ \A k \in al :
                      /\ console[k].msg.key = e.packet.psrc
                      /\ console[k].msg.is_at = e.packet.hwsrc
                      /\ console[k].msg.was = dispatched[Max(prev)].packet.hwsrc
            ELSE al = {}
    /\ DOMAIN monitor.arp_table
         = {dispatched[i].packet.psrc : i \in {j \in Idx : IsReply(dispatched[j])}}
    /\ \A ip \in DOMAIN monitor.arp_table :
         monitor.arp_table[ip]
           = dispatched[Max({j \in Idx : IsReply(dispatched[j])
                                         /\ dispatched[j].packet.psrc = ip})].packet.hwsrc

\* one IP announced with a MAC, then another, then the first again: two
\* alerts, and the table holds the last one
C7_Witness ==
  /\ Constructed
  /\ \E ip \in IPs :
       /\ Len(AlertsOf("arp_spoof", ip)) = 2
       /\ ip \in DOMAIN monitor.arp_table
       /\ monitor.arp_table[ip] = AlertsOf("arp_spoof", ip)[1].msg.was

\* the DHCP OFFERs detect_rogue_dhcp handled
OfferEvents ==
  LET Q(e) == e.packet.message_type = DhcpOffer
  IN SelectSeq(Handled("rogue_dhcp"), Q)

\* C8: with rogue-DHCP threshold 1, the first OFFER gives no alert; a second
\* OFFER from another server IP less than one hour later gives exactly one
\* alert, naming that server, and empties the map; if the first one is more
\* than one hour old it is evicted before the count and no alert is given.
C8_RogueDhcp ==
  (Constructed /\ monitor.rogue_dhcp_threshold = 1 /\ OfferEvents # <<>>) =>
    LET ev == OfferEvents
    IN /\ AlertsAt("rogue_dhcp", ev[1].at) = {}
       /\ (Len(ev) >= 2 /\ ev[1].packet.src # ev[2].packet.src) =>
            LET al == AlertsAt("rogue_dhcp", ev[2].at)
                age == ev[2].time - ev[1].time
            IN /\ age < one_hour =>
                    /\ Cardinality(al) = 1
                    /\ \A k \in al : console[k].msg.key = ev[2].packet.src
                    /\ Len(ev) = 2 => DOMAIN monitor.rogue_dhcp_servers = {}
               /\ age > one_hour =>
                    /\ al = {}
                    /\ Len(ev) = 2 =>
                         DOMAIN monitor.rogue_dhcp_servers = {ev[2].packet.src}

\* two servers offered more than an hour apart: the first was evicted and
\* the second OFFER gave no alert
C8_Witness ==
  /\ Constructed
  /\ monitor.rogue_dhcp_threshold = 1
  /\ Len(OfferEvents) = 2
  /\ OfferEvents[1].packet.src # OfferEvents[2].packet.src
  /\ OfferEvents[2].time - OfferEvents[1].time > one_hour
  /\ AlertsAt("rogue_dhcp", OfferEvents[2].at) = {}

\* the dispatched packets of one malformed-counter key whose expected field
\* (TCP flags, UDP source port) cannot be read
ReadFails(p) == (p.tcp /\ ~p.flags_ok) \/ (~p.tcp /\ p.udp /\ ~p.sport_ok)
KeyOf(p) == IF p.ip THEN p.src ELSE "Unknown"
FailingPackets(key) ==
  LET Q(e) == ReadFails(e.packet) /\ KeyOf(e.packet) = key
  IN SelectSeq(dispatched, Q)

\* C9 as stated: with malformed threshold T, every (T+1)-th packet of one
\* source whose expected field access fails gives one alert and resets the
\* source's counter to zero; T or fewer give none.
C9_Original ==
  Constructed =>
    \A ip \in IPs :
      /\ Len(AlertsOf("malformed_packets", ip))
           = Len(FailingPackets(ip)) \div (monitor.malformed_threshold + 1)
      /\ monitor.malformed_packets[ip]
           = Len(FailingPackets(ip)) % (monitor.malformed_threshold + 1)

\* C10 as stated: a packet with a TCP layer whose flags cannot be read adds
\* one to the malformed counter of its source IP, or of "Unknown" when it
\* has no IP layer: counter and alerts account for every such packet.
C10_Original ==
  Constructed =>
    \A key \in MalformedKeys :
      monitor.malformed_packets[key]
        + (monitor.malformed_threshold + 1) * Len(AlertsOf("malformed_packets", key))
      = Len(FailingPackets(key))

\* the run of process_packet before its first statement
Start(obj) ==
  [self |-> obj, out |-> <<>>, raised |-> "none", failed |-> "none", ran |-> <<>>]

\* the statements of process_packet taken in another order, from the k-th on
RECURSIVE RunIn(_, _, _, _, _)
RunIn(order, s, k, p, current_time) ==
  IF k > Len(order) THEN s
  ELSE CHOOSE r \in
         {RunIn(order, x, k + 1, p, current_time) :
            x \in {Call(s, Applies(s.self, order[k], p), order[k],
                        Detect(order[k], s, p, current_time))}} : TRUE

\* The orders in which the detectors that apply to p can be called; a
\* detector that does not apply to p does nothing wherever it stands.
OrdersOf(p) ==
  LET app == Applicable(p)
  IN {[i \in 1..Len(app) |-> app[f[i]]] : f \in Permutations(1..Len(app))}

Count(seq, m) == Cardinality({i \in 1..Len(seq) : seq[i] = m})

\* the same detector state and the same alerts, each as often
SameResult(a, b) ==
  /\ a.self = b.self
  /\ \A m \in Range(a.out) \cup Range(b.out) : Count(a.out, m) = Count(b.out, m)

\* the advances of the clock that the next reading can show
ClockSteps == {d \in {0} \cup TickSteps : d = 0 \/ ticks < MaxTicks}

C12_SingleWriter ==
  [][/\ (Constructed /\ monitor' # monitor) => (pc = "process" /\ pc' = "task_done")
     /\ captured' # captured =>
          /\ \E p \in traffic :
               /\ captured' = Append(captured, p)
               /\ packet_queue' = Append(packet_queue, p)
          /\ UNCHANGED <<monitor, pc, packet, uncaught, console, errors, now,
                         ticks, dispatched>>
     /\ (packet_queue' # packet_queue /\ captured' = captured) =>
          /\ pc = "get" /\ pc' = "process"
          /\ packet_queue' = Tail(packet_queue)
          /\ monitor' = monitor
    ]_vars

\* the two contexts interleave: the worker has changed detector state and
\* holds a packet while the callback has enqueued further ones
C12_Witness ==
  /\ Constructed
  /\ pc = "process"
  /\ monitor # NewMonitor(args)
  /\ Len(packet_queue) >= 1
  /\ main_pc = "sniff"

\* C13: once capture has ended or the process was interrupted, the worker
\* takes no further step: the packets still queued stay queued, nothing more
\* is dispatched and no further alert is printed.
C13_NoDrain ==
  [][main_pc = "exited" =>
       UNCHANGED <<packet_queue, pc, packet, monitor, dispatched, console, errors>>
    ]_vars

\* the process has exited after some packets were dispatched, with others
\* left in the queue
C13_Witness ==
  /\ main_pc = "exited"
  /\ packet_queue # <<>>
  /\ dispatched # <<>>
  /\ Len(dispatched) + Len(packet_queue) <= Len(captured)

ThresholdNames ==
  {"dhcp_threshold", "port_scan_threshold", "dns_exfil_threshold",
   "bandwidth_threshold", "icmp_threshold", "syn_threshold", "http_threshold",
   "malformed_threshold", "rogue_dhcp_threshold"}

\* C14 as stated: an object holding a negative threshold never takes a
\* packet from the queue or dispatches one, and the thresholds of a
\* constructed object are the ones it was constructed with.
C14_Original ==
  Constructed =>
    /\ (\E f \in ThresholdNames : monitor[f] < 0) =>
         (pc = "get" /\ dispatched = <<>> /\ console = <<>>)
    /\ \A f \in ThresholdNames : monitor[f] = args[f]

\* the order of alerts within one packet that the claim names
AlertOrder ==
  <<"arp_spoof", "dhcp_flood", "port_scan", "dns_exfiltration",
    "bandwidth_abuse", "icmp_flood", "syn_flood", "malformed_packets",
    "rogue_dhcp", "http_abuse">>

Position(name) == CHOOSE i \in 1..Len(AlertOrder) : AlertOrder[i] = name

\* C15: the console holds the alerts in dispatch order, which is the order
\* of enqueueing: the alerts of an earlier packet stand before those of a
\* later one, the alerts of one packet stand in the order ARP, DHCP flood,
\* port scan, DNS, bandwidth, ICMP, SYN, malformed, rogue DHCP, HTTP, a
\* detector reports at most once per packet and only for a packet it was
\* run on; the object has no field that records alerts.
C15_AlertOrder ==
  Constructed =>
    /\ \A i \in Idx : dispatched[i].packet = captured[i]
    /\ \A k \in 1..Len(console) :
         /\ console[k].at \in Idx
         /\ console[k].msg.detector \in Range(dispatched[console[k].at].ran)
    /\ \A k \in 1..(Len(console) - 1) :
         \/ console[k].at < console[k + 1].at
         \/ /\ console[k].at = console[k + 1].at
            /\ Position(console[k].msg.detector)
                 < Position(console[k + 1].msg.detector)
    /\ DOMAIN monitor = DOMAIN NewMonitor(args)

\* one packet gave three alerts and a later packet gave another
C15_Witness ==
  \E k \in 1..(Len(console) - 3) :
    /\ console[k].at = console[k + 2].at
    /\ console[k + 3].at > console[k].at

\* C16: the worker can always take its next step except when it waits at
\* get() with an empty queue; so, the worker being scheduled fairly, every
\* packet enqueued is dispatched unless the process exits first, whether or
\* not processing an earlier packet raised.
C16_Liveness ==
  /\ [](WorkerAlive =>
         /\ (pc = "get" /\ packet_queue # <<>>) => ENABLED Get
         /\ pc = "process" => ENABLED ProcessPacket
         /\ pc = "task_done" => ENABLED TaskDone
         /\ pc # "terminated")
  /\ \A n \in 1..MaxPackets :
       (Len(captured) >= n) ~> (Len(dispatched) >= n \/ main_pc = "exited")

\* every packet captured was dispatched, the last one after one that raised
C16_Witness ==
  /\ Len(captured) >= 2
  /\ Len(dispatched) = Len(captured)
  /\ \E i \in 1..(Len(dispatched) - 1) : dispatched[i].raised
  /\ main_pc = "sniff"

\* the ICMP packets of source ip that detect_icmp_flood handled
IcmpEvents(ip) ==
  LET Q(e) == e.packet.src = ip IN SelectSeq(Handled("icmp_flood"), Q)

\* of the first k entries of a history, those not more than one minute
\* older than the k-th
InWindow(ev, k) ==
  Cardinality({j \in 1..k : ev[j].time >= ev[k].time - one_minute})

\* the detector's last alert for the key came with the last entry of ev
AlertedLast(det, ev) == ev # <<>> /\ AlertsAt(det, ev[Len(ev)].at) # {}

\* C17: with ICMP threshold T, an ICMP packet gives an alert exactly when,
\* counting itself, more than T ICMP packets of its source IP are not more
\* than one minute older than it, alerts given before not reducing the
\* count, and the alert reports that count; the window holds all of them.
\* A SYN or DHCP flood alert leaves the key's window empty.
C17_IcmpNoReset ==
  Constructed =>
    /\ \A ip \in IPs :
         LET ev == IcmpEvents(ip)
         IN /\ \A k \in 1..Len(ev) :
                 LET al == AlertsAt("icmp_flood", ev[k].at)
                 IN IF InWindow(ev, k) > monitor.icmp_threshold
                    THEN /\ Cardinality(al) = 1
                         /\ \A c \in al : /\ console[c].msg.count = InWindow(ev, k)
                                          /\ console[c].msg.key = ip
                    ELSE al = {}
            /\ Len(monitor.icmp_requests[ip])
                 = IF ev = <<>> THEN 0 ELSE InWindow(ev, Len(ev))
            /\ AlertedLast("syn_flood", SynEvents(ip)) =>
                 monitor.syn_requests[ip] = <<>>
    /\ \A mac \in MACs :
         AlertedLast("dhcp_flood", DhcpEvents(mac)) =>
           monitor.dhcp_requests[mac] = <<>>

\* T+2 ICMP packets of one IP within a minute, T >= 1: the (T+1)-th and the
\* (T+2)-th both alerted, and the window holds all T+2
C17_Witness ==
  /\ Constructed
  /\ monitor.icmp_threshold >= 1
  /\ \E ip \in IPs :
       /\ Len(IcmpEvents(ip)) = monitor.icmp_threshold + 2
       /\ Len(AlertsOf("icmp_flood", ip)) = 2
       /\ Len(monitor.icmp_requests[ip]) = monitor.icmp_threshold + 2

\* at most T entries of the history are within one minute before any entry
Sparse(ev, T) == \A k \in 1..Len(ev) : InWindow(ev, k) <= T

\* C18: in the DHCP, ICMP and SYN flood detectors, a key whose qualifying
\* packets are such that no packet has, itself included, more than T of
\* them within the minute before it never gets an alert, however many
\* packets it sends in all.
C18_SlidingWindow ==
  Constructed =>
    /\ \A ip \in IPs :
         /\ Sparse(IcmpEvents(ip), monitor.icmp_threshold) =>
              AlertsOf("icmp_flood", ip) = <<>>
         /\ Sparse(SynEvents(ip), monitor.syn_threshold) =>
              AlertsOf("syn_flood", ip) = <<>>
    /\ \A mac \in MACs :
         Sparse(DhcpEvents(mac), monitor.dhcp_threshold) =>
           AlertsOf("dhcp_flood", mac) = <<>>

\* more than T ICMP packets of one IP, T >= 1, spread so that no minute
\* holds more than T of them: no alert
C18_Witness ==
  /\ Constructed
  /\ monitor.icmp_threshold >= 1
  /\ \E ip \in IPs :
       /\ Len(IcmpEvents(ip)) > monitor.icmp_threshold
       /\ Sparse(IcmpEvents(ip), monitor.icmp_threshold)
       /\ AlertsOf("icmp_flood", ip) = <<>>

\* the dispatched DHCP requests with link-layer source mac
RequestsOf(mac) ==
  LET Q(e) == /\ e.packet.dhcp
              /\ e.packet.eth_src = mac
              /\ e.packet.message_type = DhcpRequest
  IN SelectSeq(dispatched, Q)

\* C19 as stated: only DHCP requests enter a DHCP-flood window: the entries
\* a MAC's window holds and the entries its alerts consumed (more than T
\* each) are never more than the requests dispatched from that MAC, and a
\* MAC that sent no request has no alert.
C19_Original ==
  Constructed =>
    \A mac \in MACs :
      /\ Len(monitor.dhcp_requests[mac])
           + (monitor.dhcp_threshold + 1) * Len(AlertsOf("dhcp_flood", mac))
           <= Len(RequestsOf(mac))
      /\ RequestsOf(mac) = <<>> => AlertsOf("dhcp_flood", mac) = <<>>

\* the DNS queries of source ip that detect_dns_exfiltration handled, and
\* the DNS responses of source ip that were dispatched
QueryEvents(ip) ==
  LET Q(e) == e.packet.src = ip IN SelectSeq(Handled("dns_exfiltration"), Q)
ResponseEvents(ip) ==
  LET Q(e) == e.packet.dns /\ e.packet.qr # 0 /\ e.packet.src = ip
  IN SelectSeq(dispatched, Q)

BandwidthEvents(ip) ==
  LET Q(e) == e.packet.src = ip IN SelectSeq(Handled("bandwidth_abuse"), Q)

\* the entries of a history that came with an alert of the detector
Alerted(det, ev) == {j \in 1..Len(ev) : AlertsAt(det, ev[j].at) # {}}

\* the entries after the last alerted one before the k-th, up to the k-th
SinceAlert(det, ev, k) ==
  LET earlier == {j \in Alerted(det, ev) : j < k}
  IN IF earlier = {} THEN 1..k ELSE (Max(earlier) + 1)..k

RECURSIVE Bytes(_, _)
Bytes(ev, J) ==
  IF J = {} THEN 0
  ELSE LET j == CHOOSE x \in J : TRUE
       IN ev[j].packet.length + Bytes(ev, J \ {j})

HttpEvents(ip) ==
  LET Q(e) == e.packet.src = ip IN SelectSeq(Handled("http_abuse"), Q)
PlainTcpEvents(ip) ==
  LET Q(e) == e.packet.tcp /\ ~e.packet.raw /\ e.packet.src = ip
  IN SelectSeq(dispatched, Q)

RogueReset(quiet) ==
  LET ev == OfferEvents
      since == {j \in 1..Len(ev) : \A a \in Alerted("rogue_dhcp", ev) : a < j}
      servers == monitor.rogue_dhcp_servers
  IN /\ \A k \in 1..Len(ev) :
          \A c \in AlertsAt("rogue_dhcp", ev[k].at) :
            console[c].msg.key = ev[k].packet.src
     /\ AlertedLast("rogue_dhcp", ev) => DOMAIN servers = {}
     /\ quiet =>
          \A k \in 2..Len(ev) :
            AlertsAt("rogue_dhcp", ev[k - 1].at) # {} =>
              AlertsAt("rogue_dhcp", ev[k].at) = {}
     /\ DOMAIN servers \subseteq {ev[j].packet.src : j \in since}
     /\ \A ip \in DOMAIN servers :
          servers[ip] = ev[Max({j \in since : ev[j].packet.src = ip})].time

\* C23 as stated, for every threshold
C23_Original == Constructed => RogueReset(TRUE)

\* C23 as amended: the OFFER that follows an alert fires no alert when the
\* threshold is 1 or more (with threshold 0 the single server it leaves in
\* the map already exceeds the threshold); the rest as stated.
C23_RogueReset == Constructed => RogueReset(monitor.rogue_dhcp_threshold >= 1)

\* T >= 1: an OFFER alerted, naming its sender, and the OFFER after it
\* gave no alert and is the only entry of the map
C23_Witness ==
  /\ Constructed
  /\ monitor.rogue_dhcp_threshold >= 1
  /\ \E k \in 2..Len(OfferEvents) :
       /\ k = Len(OfferEvents)
       /\ AlertsAt("rogue_dhcp", OfferEvents[k - 1].at) # {}
       /\ AlertsAt("rogue_dhcp", OfferEvents[k].at) = {}
       /\ DOMAIN monitor.rogue_dhcp_servers = {OfferEvents[k].packet.src}

\* the flag values of the traffic that have the SYN bit
SynBitSet(fl) == fl \in {SynBit, SynBit + AckBit}

\* the SYN-flood alerts among the alerts of one process_packet call
SynAlerts(out) == SelectSeq(out, LAMBDA m : m.detector = "syn_flood")

\* C24: whatever TCP packet with readable flags and an IP layer the worker
\* is about to process and whatever the clock reads: if the SYN bit is set
\* the packet is counted, its timestamp is the newest entry of its source's
\* window unless the count alerts and empties the window, and SYN windows
\* and SYN alerts come out as for a bare SYN in its place; if the SYN bit is
\* not set every SYN window stays as it is and no SYN alert is printed.  No
\* SYN alert on the console came with a packet without the SYN bit.
C24_SynQualification ==
  /\ (Constructed /\ pc = "process" /\ packet.tcp /\ packet.ip /\ packet.flags_ok) =>
       \A d \in ClockSteps :
         \A r \in {process_packet(monitor, packet, now + d)} :
           IF SynBitSet(packet.flags)
           THEN /\ \A bare \in {process_packet(monitor,
                                    [packet EXCEPT !.flags = SynBit], now + d)} :
                     /\ r.self.syn_requests = bare.self.syn_requests
                     /\ SynAlerts(r.out) = SynAlerts(bare.out)
                /\ IF SynAlerts(r.out) = <<>>
                   THEN \A w \in {r.self.syn_requests[packet.src]} :
                          w # <<>> /\ w[Len(w)] = now + d
                   ELSE /\ r.self.syn_requests[packet.src] = <<>>
                        /\ SynAlerts(r.out)[1].count > monitor.syn_threshold
           ELSE /\ r.self.syn_requests = monitor.syn_requests
                /\ SynAlerts(r.out) = <<>>
  /\ \A c \in 1..Len(console) :
       console[c].msg.detector = "syn_flood" =>
         SynBitSet(dispatched[console[c].at].packet.flags)

\* after a SYN that was counted and an ACK that was not, the worker holds
\* a SYN+ACK of the same source
C24_Witness ==
  /\ Constructed
  /\ pc = "process"
  /\ packet.tcp
  /\ packet.flags = SynBit + AckBit
  /\ Len(monitor.syn_requests[packet.src]) = 1
  /\ \E i \in Idx :
       dispatched[i].packet.flags = AckBit /\ dispatched[i].packet.src = packet.src

\* an ARP packet that is not a reply
NotReply(p) == p.arp /\ p.arp_op # ArpIsAt

\* C25: whatever ARP packet that is not a reply the worker is about to
\* process, processing it leaves the ARP table as it is and prints no
\* alert, whatever the table holds for its sender IP; and no spoofing alert
\* on the console came with such a packet.
C25_ArpRequests ==
  /\ (Constructed /\ pc = "process" /\ NotReply(packet)) =>
       \A r \in {process_packet(monitor, packet, now)} :
         r.self.arp_table = monitor.arp_table /\ r.out = <<>>
  /\ \A i \in Idx :
       NotReply(dispatched[i].packet) => AlertsAt("arp_spoof", i) = {}

\* the last packet dispatched was a who-has whose sender MAC differs from
\* the MAC recorded for its sender IP: the record stands and no alert came
C25_Witness ==
  /\ Constructed
  /\ pc = "get"
  /\ dispatched # <<>>
  /\ LET e == dispatched[Len(dispatched)]
     IN /\ NotReply(e.packet)
        /\ e.packet.psrc \in DOMAIN monitor.arp_table
        /\ monitor.arp_table[e.packet.psrc] # e.packet.hwsrc
        /\ AlertsAt("arp_spoof", Len(dispatched)) = {}

\* C26: with thresholds of 0 or more, whenever the worker is between two
\* packets every DHCP and SYN window, port set, DNS, HTTP and malformed
\* counter, bandwidth counter and the rogue-DHCP map is within its
\* threshold (ICMP windows are not bounded so: see the witness).
C26_BoundedState ==
  (Constructed /\ \A f \in ThresholdNames : monitor[f] >= 0) =>
    /\ \A mac \in MACs : Len(monitor.dhcp_requests[mac]) <= monitor.dhcp_threshold
    /\ \A ip \in IPs :
         /\ Len(monitor.syn_requests[ip]) <= monitor.syn_threshold
         /\ Cardinality(monitor.port_scan_attempts[ip]) <= monitor.port_scan_threshold
         /\ monitor.dns_queries[ip] <= monitor.dns_exfil_threshold
         /\ monitor.http_requests[ip] <= monitor.http_threshold
         /\ monitor.bandwidth_usage[ip] <= monitor.bandwidth_threshold
    /\ \A key \in MalformedKeys :
         monitor.malformed_packets[key] <= monitor.malformed_threshold
    /\ Cardinality(DOMAIN monitor.rogue_dhcp_servers) <= monitor.rogue_dhcp_threshold

\* between two packets, after an ICMP alert, an ICMP window holds more
\* entries than the threshold
C26_Witness ==
  /\ Constructed
  /\ pc = "get"
  /\ \E ip \in IPs :
       /\ Len(monitor.icmp_requests[ip]) > monitor.icmp_threshold
       /\ AlertsOf("icmp_flood", ip) # <<>>

\* n qualifying packets of one source with threshold T: an alert with
\* every (T+1)-th of them and the counter at n mod (T+1)
CounterLaw(ev, al, counter, T) ==
  /\ Len(al) = Len(ev) \div (T + 1)
  /\ \A k \in 1..Len(al) : al[k].at = ev[k * (T + 1)].at
  /\ counter = Len(ev) % (T + 1)

IpKeyed ==
  {"port_scan_attempts", "dns_queries", "bandwidth_usage", "icmp_requests",
   "syn_requests", "http_requests"}

\* C28: whatever packet the worker is about to process and whatever the
\* clock reads, processing it leaves alone the DHCP window of every MAC
\* but its link-layer source, the port set, DNS, bandwidth and HTTP counter
\* and the ICMP and SYN window of every IP but its source IP, and the
\* malformed counter of every other key, also when it alerts and resets;
\* a rogue-DHCP alert empties the whole server map.
C28_KeyIsolation ==
  (Constructed /\ pc = "process") =>
    \A d \in ClockSteps :
      \A r \in {process_packet(monitor, packet, now + d)} :
        /\ \A mac \in MACs \ {packet.eth_src} :
             r.self.dhcp_requests[mac] = monitor.dhcp_requests[mac]
        /\ \A f \in IpKeyed :
             \A ip \in IPs \ {packet.src} : r.self[f][ip] = monitor[f][ip]
        /\ \A key \in MalformedKeys \ {KeyOf(packet)} :
             r.self.malformed_packets[key] = monitor.malformed_packets[key]
        /\ (\E k \in 1..Len(r.out) : r.out[k].detector = "rogue_dhcp") =>
             DOMAIN r.self.rogue_dhcp_servers = {}

\* the worker holds a packet that will give a SYN alert for its source
\* and reset the source's window while the other source has a window
C28_Witness ==
  /\ Constructed
  /\ pc = "process"
  /\ packet.tcp
  /\ \E ip \in IPs \ {packet.src} : monitor.syn_requests[ip] # <<>>
  /\ monitor.syn_requests[packet.src] # <<>>
  /\ SynAlerts(process_packet(monitor, packet, now).out) # <<>>

\* C29: a step that dispatches a packet on which a detector raises leaves
\* the detector state that the detectors called before the raising one
\* produce, run on the state before the step, and appends their alerts to
\* the console: nothing of the successful prefix is undone (the raising
\* detector itself has written nothing when it raises).
C29_NoRollback ==
  [][(pc = "process" /\ pc' = "task_done"
        /\ dispatched'[Len(dispatched')].raised) =>
       \A ran \in {dispatched'[Len(dispatched')].ran} :
         \A r \in {RunIn(SubSeq(ran, 1, Len(ran) - 1), Start(monitor), 1,
                         packet, now')} :
           /\ r.raised = "none"
           /\ monitor' = r.self
           /\ console' = console \o [i \in 1..Len(r.out) |->
                                      [msg |-> r.out[i], at |-> Len(dispatched')]]
    ]_vars

\* a packet on which the third detector called raised: an alert printed
\* for it before that is on the console and the port it added is recorded
C29_Witness ==
  /\ Constructed
  /\ \E i \in Idx :
       /\ dispatched[i].raised
       /\ i = Len(dispatched)
       /\ Len(dispatched[i].ran) >= 3
       /\ \E c \in 1..Len(console) : console[c].at = i
       /\ dispatched[i].packet.dport \in
            monitor.port_scan_attempts[dispatched[i].packet.src]

\* C30: while the constructor has not assigned the fields the worker,
\* already started, waits at get() on an empty queue and cannot go on:
\* nothing was enqueued or dispatched; whenever a packet is queued, held by
\* the worker or dispatched, the object has all its fields.
C30_InitBeforeDispatch ==
  /\ ~Constructed =>
       /\ monitor = <<>>
       /\ pc = "get"
       /\ ~ENABLED Get
       /\ packet_queue = <<>> /\ captured = <<>> /\ dispatched = <<>>
  /\ (packet_queue # <<>> \/ pc # "get" \/ dispatched # <<>>) =>
       /\ main_pc \in {"sniff", "exited"}
       /\ DOMAIN monitor = DOMAIN NewMonitor(args)

\* the worker is about to dispatch the first packet, against the state the
\* constructor assigned
C30_Witness ==
  /\ pc = "process"
  /\ dispatched = <<>>
  /\ main_pc = "sniff"
  /\ monitor = NewMonitor(args)

====
